---- MODULE Spec2Model ----
(***************************************************************************)
(* Model of rally_openstack/task/scenarios/neutron/utils.py: the           *)
(* NeutronScenario helper methods.  A scenario object forwards each helper *)
(* call to the networking service (self.neutron, a NeutronService) or to   *)
(* the raw client (self.clients("neutron")).  The model keeps, for the     *)
(* invocation in progress or last finished, the arguments it was given,    *)
(* the log of service calls it made with the service's answers, and how    *)
(* it ended (a returned value or a raised exception).                      *)
(*                                                                         *)
(* Python dicts are functions from key strings to values; a keyword        *)
(* argument set (kwargs) is such a dict.  None is the string "None".     *)
(***************************************************************************)
EXTENDS Integers, Sequences, FiniteSets, TLC

VARIABLES
    self,      \* the scenario object's attributes
    pc,        \* "idle", "done", or the multi-call method in progress
    inv,       \* the invocation in progress or last finished: method, args
    locals,    \* local variables of the method in progress
    calls,     \* service calls made by that invocation, with their answers
    outcome    \* how that invocation ended: return, raise, or none yet

vars == <<self, pc, inv, locals, calls, outcome>>

(***************************************************************************)
(* Bounds of the model.                                                    *)
(***************************************************************************)
\* largest subnets_per_network, and largest number of subnets in networks
MaxCount == 2
\* number of status polls after which the wait's timeout has surely elapsed
MaxPolls == 2
\* largest iteration number a scenario object is built for
MaxIteration == 2

(***************************************************************************)
(* Python values.                                                          *)
(***************************************************************************)
None == "None"
EmptyDict == << >>

\* dict.pop(k, None): the dict without key k
Pop(d, k) == [x \in DOMAIN d \ {k} |-> d[x]]

\* d[k] = v
SetItem(d, k, v) == [x \in DOMAIN d \cup {k} |-> IF x = k THEN v ELSE d[x]]

\* d.update(e): e's entries win
Update(d, e) ==
    [x \in DOMAIN d \cup DOMAIN e |-> IF x \in DOMAIN e THEN e[x] ELSE d[x]]

\* all dicts with keys among K and values in V
Dicts(K, V) == UNION {[S -> V] : S \in SUBSET K}

\* values a caller writes into option dicts
UserVals == {"u1", "u2"}
\* resource ids
Ids == {"id1", "id2"}
\* names self.generate_random_name() can produce
RandomNames == {"s_rally_1", "s_rally_2"}

(***************************************************************************)
(* The class constants of NeutronScenario.                                 *)
(***************************************************************************)
LB_METHOD == "ROUND_ROBIN"
LB_PROTOCOL == "HTTP"
LB_PROTOCOL_PORT == 80
HM_TYPE == "PING"
HM_MAX_RETRIES == 3
HM_DELAY == 20
HM_TIMEOUT == 10

(***************************************************************************)
(* The scenario object after construction.  The tenant context either      *)
(* lists pre-created networks or does not.                                 *)
(***************************************************************************)
ContextNetworks == << [id |-> "id1"], [id |-> "id2"] >>

Contexts ==
    { [tenant |-> t, iteration |-> i] :
        t \in { [id |-> "t1"],
                [id |-> "t1", networks |-> ContextNetworks] },
        i \in 0..MaxIteration }

Scenarios ==
    { [context |-> c,
       neutron |-> "NeutronService(clients)",
       admin_neutron |-> "NeutronService(admin_clients)",
       LB_METHOD |-> LB_METHOD,
       LB_PROTOCOL |-> LB_PROTOCOL,
       LB_PROTOCOL_PORT |-> LB_PROTOCOL_PORT,
       HM_TYPE |-> HM_TYPE,
       HM_MAX_RETRIES |-> HM_MAX_RETRIES,
       HM_DELAY |-> HM_DELAY,
       HM_TIMEOUT |-> HM_TIMEOUT] : c \in Contexts }

(***************************************************************************)
(* The external service.  A call either returns a value or raises.  The    *)
(* errors differ in type and in whether they carry a status_code.          *)
(***************************************************************************)
ServiceErrors ==
    { [type |-> "NotFound", has_status |-> TRUE, status_code |-> 404],
      [type |-> "InternalServerError", has_status |-> TRUE,
       status_code |-> 500],
      [type |-> "ConnectionError", has_status |-> FALSE, status_code |-> 0],
      [type |-> "GetResourceFailure", has_status |-> FALSE,
       status_code |-> 0] }

\* resource objects the service hands out
Objects == [id : Ids, name : RandomNames]

Ok(v) == [kind |-> "ok", value |-> v]
Err(e) == [kind |-> "error", exc |-> e]

\* one entry of the call log
Call(op, pos, kw, res) == [op |-> op, pos |-> pos, kw |-> kw, res |-> res]

\* how an invocation ends
Return(v) == [kind |-> "return", value |-> v]
Raise(e) == [kind |-> "raise", exc |-> e]
NoOutcome == [kind |-> "none"]

Invocation(method, args) == [method |-> method, args |-> args]

\* the dict {key: value}
Dict1(key, value) == key :> value

(***************************************************************************)
(* A method whose body is one service call: the call is logged with the    *)
(* service's answer; a returned object is reshaped under `key` (or handed  *)
(* back raw, or dropped), an error leaves the method as it was raised.     *)
(***************************************************************************)
\* a wrapper that forgets the reshaping and hands the object back as it is
Shape_unwrapped(key, value) ==
    IF key = "none" THEN None ELSE value

\* return {"<key>": <answer>}, return <answer>, or no return statement
Shape(key, value) ==
    IF key = "raw" THEN value
    ELSE IF key = "none" THEN None
    ELSE Dict1(key, value)

OneCall(method, args, op, pos, kw, answers, key) ==
    /\ pc = "idle"
    /\ inv' = Invocation(method, args)
    /\ \/ \E v \in answers :
            /\ calls' = << Call(op, pos, kw, Ok(v)) >>
            /\ outcome' = Return(Shape(key, v))
       \/ \E e \in ServiceErrors :
            /\ calls' = << Call(op, pos, kw, Err(e)) >>
            /\ outcome' = Raise(e)
    /\ pc' = "done"
    /\ UNCHANGED <<self, locals>>

(***************************************************************************)
(* Arguments the callers pass.                                             *)
(***************************************************************************)
NameOrIds == {"id1", "net-a"}
\* keyword options of the show methods
ShowOpts == Dicts({"fields"}, {"u1"})
\* a resource as the helpers hand it around: {"<key>": {"id": ...}}
Refs(key) == {Dict1(key, [id |-> i]) : i \in Ids}
\* option dicts of the create and update methods
NetworkArgs == Dicts({"name", "admin_state_up"}, UserVals)
SubnetArgs == Dicts({"name", "network_id", "start_cidr", "ip_version"},
                    UserVals)
RouterArgs == Dicts({"name", "tenant_id", "project_id", "admin_state_up"},
                    UserVals)
PortArgs == Dicts({"network_id", "admin_state_up"}, UserVals)
UpdateArgs == Dicts({"name", "admin_state_up"}, UserVals)
FloatingIpArgs == Dicts({"port_id"}, UserVals)
SecurityGroupArgs == Dicts({"name", "description"}, UserVals)
RuleArgs == Dicts({"protocol"}, UserVals)
CidrStarts == {None, "10.2.0.0/24"}

(***************************************************************************)
(* NeutronScenario._get_network_id                                         *)
(***************************************************************************)
\* no except clause: the lookup failure leaves the method as it is
get_network_id_except_propagates(network, e) == Raise(e)

\* except Exception: every error becomes NotFoundException
get_network_id_except_catches_all(network, e) ==
    Raise([type |-> "NotFoundException",
           message |-> <<"Network", network, "not found.">>])

\* except exceptions.GetResourceFailure: raise exceptions.NotFoundException
get_network_id_except(network, e) ==
    IF e.type = "GetResourceFailure"
    THEN Raise([type |-> "NotFoundException",
                message |-> <<"Network", network, "not found.">>])
    ELSE Raise(e)

\* self.neutron.find_network(network)["id"]
get_network_id_result(found) == found["id"]

_get_network_id ==
    /\ pc = "idle"
    /\ \E network \in NameOrIds, kwargs \in ShowOpts :
           /\ pc = "idle"
           /\ inv' = Invocation("_get_network_id",
                                [network |-> network, kwargs |-> kwargs])
           /\ \/ \E v \in Objects :
                   /\ calls' = << Call("find_network", <<network>>, EmptyDict,
                                       Ok(v)) >>
                   /\ outcome' = Return(get_network_id_result(v))
              \/ \E e \in ServiceErrors :
                   /\ calls' = << Call("find_network", <<network>>, EmptyDict,
                                       Err(e)) >>
                   /\ outcome' = get_network_id_except(network, e)
           /\ pc' = "done"
           /\ UNCHANGED <<self, locals>>

(***************************************************************************)
(* Networks                                                                *)
(***************************************************************************)
\* the options forwarded as they came, the name included
create_network_kwargs_keeps_name(network_create_args) == network_create_args

\* network_create_args.pop("name", None)
create_network_kwargs(network_create_args) ==
    Pop(network_create_args, "name")

\* a _create_network that also keeps the created network in the tenant
\* context of the scenario object
_create_network_caching ==
    /\ pc = "idle"
    /\ \E network_create_args \in NetworkArgs :
           LET kw == create_network_kwargs(network_create_args) IN
           /\ pc = "idle"
           /\ inv' = Invocation("_create_network",
                                [network_create_args |-> network_create_args])
           /\ \/ \E v \in Objects :
                   /\ calls' = << Call("create_network", << >>, kw, Ok(v)) >>
                   /\ outcome' = Return(Shape("network", v))
                   /\ self' = [self EXCEPT !.context.tenant =
                                   SetItem(@, "networks", << v >>)]
              \/ \E e \in ServiceErrors :
                   /\ calls' = << Call("create_network", << >>, kw, Err(e)) >>
                   /\ outcome' = Raise(e)
                   /\ UNCHANGED self
           /\ pc' = "done"
           /\ UNCHANGED locals

_create_network ==
    /\ pc = "idle"
    /\ \E network_create_args \in NetworkArgs :
           OneCall("_create_network",
                   [network_create_args |-> network_create_args],
                   "create_network", << >>,
                   create_network_kwargs(network_create_args),
                   Objects, "network")

\* the caller's name kept when there is one (setdefault)
update_kwargs_setdefault(update_args, name) ==
    IF "name" \in DOMAIN update_args THEN update_args
    ELSE SetItem(update_args, "name", name)

\* <resource>_update_args["name"] = self.generate_random_name()
update_kwargs(update_args, name) == SetItem(update_args, "name", name)

_update_network ==
    /\ pc = "idle"
    /\ \E network \in Refs("network"), network_update_args \in UpdateArgs,
          name \in RandomNames :
           OneCall("_update_network",
                   [network |-> network,
                    network_update_args |-> network_update_args],
                   "update_network", << network["network"]["id"] >>,
                   update_kwargs(network_update_args, name),
                   Objects, "network")

_show_network ==
    /\ pc = "idle"
    /\ \E network \in Refs("network"), kwargs \in ShowOpts :
           OneCall("_show_network", [network |-> network, kwargs |-> kwargs],
                   "get_network", << network["network"]["id"] >>, kwargs,
                   Objects, "network")

_delete_network ==
    /\ pc = "idle"
    /\ \E network \in Objects :
           OneCall("_delete_network", [network |-> network],
                   "delete_network", << network["id"] >>, EmptyDict,
                   {None}, "none")

(***************************************************************************)
(* _get_or_create_network, of NeutronBaseScenario and as NeutronScenario   *)
(* overrides it.                                                           *)
(***************************************************************************)
\* a scenario that never looks at the context and always creates
context_has_networks_never(context) == FALSE

\* "networks" in self.context["tenant"]
context_has_networks(context) == "networks" \in DOMAIN context["tenant"]

\* always the first network of the context
net_idx_first(iteration, networks) == 1

\* net_idx = self.context["iteration"] % len(networks); Python counts list
\* positions from 0, sequences count from 1
net_idx(iteration, networks) == (iteration % Len(networks)) + 1

\* random.choice(networks): any element
random_choice(networks) == {networks[i] : i \in DOMAIN networks}

NeutronBaseScenario_get_or_create_network ==
    /\ pc = "idle"
    /\ \E network_create_args \in NetworkArgs :
           IF context_has_networks(self.context)
           THEN LET networks == self.context["tenant"]["networks"] IN
                /\ pc = "idle"
                /\ inv' = Invocation(
                              "NeutronBaseScenario._get_or_create_network",
                              [network_create_args |-> network_create_args])
                /\ calls' = << >>
                /\ outcome' = Return(networks[net_idx(self.context["iteration"],
                                                      networks)])
                /\ pc' = "done"
                /\ UNCHANGED <<self, locals>>
           ELSE OneCall("NeutronBaseScenario._get_or_create_network",
                        [network_create_args |-> network_create_args],
                        "create_network", << >>, network_create_args,
                        Objects, "raw")

\* network_create_args=None acts as the empty dict
\* ("network_create_args or {}")
NeutronScenario_get_or_create_network ==
    /\ pc = "idle"
    /\ \E network_create_args \in NetworkArgs :
           IF context_has_networks(self.context)
           THEN \E n \in random_choice(self.context["tenant"]["networks"]) :
                /\ pc = "idle"
                /\ inv' = Invocation(
                              "NeutronScenario._get_or_create_network",
                              [network_create_args |-> network_create_args])
                /\ calls' = << >>
                /\ outcome' = Return(Dict1("network", n))
                /\ pc' = "done"
                /\ UNCHANGED <<self, locals>>
           ELSE OneCall("NeutronScenario._get_or_create_network",
                        [network_create_args |-> network_create_args],
                        "create_network", << >>,
                        create_network_kwargs(network_create_args),
                        Objects, "network")

(***************************************************************************)
(* Subnets                                                                 *)
(***************************************************************************)
\* start_cidr written only when the options do not hold one (setdefault)
create_subnet_kwargs_setdefault(network, subnet_create_args, start_cidr) ==
    LET a == SetItem(Pop(subnet_create_args, "name"),
                     "network_id", network["network"]["id"])
    IN  IF "start_cidr" \in DOMAIN a THEN a
        ELSE SetItem(a, "start_cidr", start_cidr)

\* pop "name", then set network_id and start_cidr
create_subnet_kwargs(network, subnet_create_args, start_cidr) ==
    SetItem(SetItem(Pop(subnet_create_args, "name"),
                    "network_id", network["network"]["id"]),
            "start_cidr", start_cidr)

_create_subnet ==
    /\ pc = "idle"
    /\ \E network \in Refs("network"), subnet_create_args \in SubnetArgs,
          start_cidr \in CidrStarts :
           OneCall("_create_subnet",
                   [network |-> network,
                    subnet_create_args |-> subnet_create_args,
                    start_cidr |-> start_cidr],
                   "create_subnet", << >>,
                   create_subnet_kwargs(network, subnet_create_args,
                                        start_cidr),
                   Objects, "subnet")

\* the show options are accepted and not passed on
_show_subnet ==
    /\ pc = "idle"
    /\ \E subnet \in Refs("subnet"), kwargs \in ShowOpts :
           OneCall("_show_subnet", [subnet |-> subnet, kwargs |-> kwargs],
                   "get_subnet", << subnet["subnet"]["id"] >>, EmptyDict,
                   Objects, "subnet")

_update_subnet ==
    /\ pc = "idle"
    /\ \E subnet \in Refs("subnet"), subnet_update_args \in UpdateArgs,
          name \in RandomNames :
           OneCall("_update_subnet",
                   [subnet |-> subnet,
                    subnet_update_args |-> subnet_update_args],
                   "update_subnet", << subnet["subnet"]["id"] >>,
                   update_kwargs(subnet_update_args, name),
                   Objects, "subnet")

_delete_subnet ==
    /\ pc = "idle"
    /\ \E subnet \in Refs("subnet") :
           OneCall("_delete_subnet", [subnet |-> subnet],
                   "delete_subnet", << subnet["subnet"]["id"] >>, EmptyDict,
                   {None}, "none")

(***************************************************************************)
(* Routers                                                                 *)
(***************************************************************************)
\* tenant_id copied to project_id and left in place
create_router_kwargs_keeps_tenant(router_create_args, external_gw) ==
    LET a == Pop(router_create_args, "name")
        b == IF "tenant_id" \in DOMAIN a /\ "project_id" \notin DOMAIN a
             THEN SetItem(a, "project_id", a["tenant_id"])
             ELSE a
    IN  SetItem(b, "discover_external_gw", external_gw)

\* pop "name"; move tenant_id to project_id when project_id is not given
create_router_kwargs(router_create_args, external_gw) ==
    LET a == Pop(router_create_args, "name")
        b == IF "tenant_id" \in DOMAIN a /\ "project_id" \notin DOMAIN a
             THEN SetItem(Pop(a, "tenant_id"), "project_id", a["tenant_id"])
             ELSE a
    IN  SetItem(b, "discover_external_gw", external_gw)

_create_router ==
    /\ pc = "idle"
    /\ \E router_create_args \in RouterArgs, external_gw \in BOOLEAN :
           OneCall("_create_router",
                   [router_create_args |-> router_create_args,
                    external_gw |-> external_gw],
                   "create_router", << >>,
                   create_router_kwargs(router_create_args, external_gw),
                   Objects, "router")

_show_router ==
    /\ pc = "idle"
    /\ \E router \in Refs("router"), kwargs \in ShowOpts :
           OneCall("_show_router", [router |-> router, kwargs |-> kwargs],
                   "get_router", << router["router"]["id"] >>, kwargs,
                   Objects, "router")

_update_router ==
    /\ pc = "idle"
    /\ \E router \in Refs("router"), router_update_args \in UpdateArgs,
          name \in RandomNames :
           OneCall("_update_router",
                   [router |-> router,
                    router_update_args |-> router_update_args],
                   "update_router", << router["router"]["id"] >>,
                   update_kwargs(router_update_args, name),
                   Objects, "router")

(***************************************************************************)
(* Ports                                                                   *)
(***************************************************************************)
\* create_port(network_id=..., **port_create_args): a network_id among the
\* options is a second value for the same keyword, which Python refuses
\* with TypeError before the service is called.
_create_port ==
    /\ pc = "idle"
    /\ \E network \in Refs("network"), port_create_args \in PortArgs :
           IF "network_id" \in DOMAIN port_create_args
           THEN /\ pc = "idle"
                /\ inv' = Invocation("_create_port",
                                     [network |-> network,
                                      port_create_args |-> port_create_args])
                /\ calls' = << >>
                /\ outcome' = Raise([type |-> "TypeError"])
                /\ pc' = "done"
                /\ UNCHANGED <<self, locals>>
           ELSE OneCall("_create_port",
                        [network |-> network,
                         port_create_args |-> port_create_args],
                        "create_port", << >>,
                        SetItem(port_create_args, "network_id",
                                network["network"]["id"]),
                        Objects, "port")

_show_port ==
    /\ pc = "idle"
    /\ \E port \in Refs("port"), params \in ShowOpts :
           OneCall("_show_port", [port |-> port, params |-> params],
                   "get_port", << port["port"]["id"] >>, params,
                   Objects, "port")

_update_port ==
    /\ pc = "idle"
    /\ \E port \in Refs("port"), port_update_args \in UpdateArgs,
          name \in RandomNames :
           OneCall("_update_port",
                   [port |-> port, port_update_args |-> port_update_args],
                   "update_port", << port["port"]["id"] >>,
                   update_kwargs(port_update_args, name),
                   Objects, "port")

(***************************************************************************)
(* Floating IPs, security groups and their rules                           *)
(***************************************************************************)
_create_floatingip ==
    /\ pc = "idle"
    /\ \E floating_network \in NameOrIds, floating_ip_args \in FloatingIpArgs :
           OneCall("_create_floatingip",
                   [floating_network |-> floating_network,
                    floating_ip_args |-> floating_ip_args],
                   "create_floatingip", << >>,
                   SetItem(floating_ip_args, "floating_network",
                           floating_network),
                   Objects, "floatingip")

_create_security_group ==
    /\ pc = "idle"
    /\ \E security_group_create_args \in SecurityGroupArgs,
          name \in RandomNames :
           OneCall("_create_security_group",
                   [security_group_create_args |-> security_group_create_args],
                   "create_security_group", << >>,
                   SetItem(security_group_create_args, "name", name),
                   Objects, "security_group")

_show_security_group ==
    /\ pc = "idle"
    /\ \E security_group \in Refs("security_group"), kwargs \in ShowOpts :
           OneCall("_show_security_group",
                   [security_group |-> security_group, kwargs |-> kwargs],
                   "get_security_group",
                   << security_group["security_group"]["id"] >>, kwargs,
                   Objects, "security_group")

_update_security_group ==
    /\ pc = "idle"
    /\ \E security_group \in Refs("security_group"),
          security_group_update_args \in SecurityGroupArgs,
          name \in RandomNames :
           OneCall("_update_security_group",
                   [security_group |-> security_group,
                    security_group_update_args |-> security_group_update_args],
                   "update_security_group",
                   << security_group["security_group"]["id"] >>,
                   update_kwargs(security_group_update_args, name),
                   Objects, "security_group")

_create_security_group_rule ==
    /\ pc = "idle"
    /\ \E security_group_id \in Ids, security_group_rule_args \in RuleArgs :
           OneCall("_create_security_group_rule",
                   [security_group_id |-> security_group_id,
                    security_group_rule_args |-> security_group_rule_args],
                   "create_security_group_rule", << security_group_id >>,
                   security_group_rule_args, Objects, "security_group_rule")

_show_security_group_rule ==
    /\ pc = "idle"
    /\ \E security_group_rule \in Ids, kwargs \in ShowOpts :
           OneCall("_show_security_group_rule",
                   [security_group_rule |-> security_group_rule,
                    kwargs |-> kwargs],
                   "get_security_group_rule", << security_group_rule >>,
                   kwargs, Objects, "security_group_rule")

(***************************************************************************)
(* LBaaS v1: pools, VIPs, health monitors.  These go to the raw client,    *)
(* which takes a request body and returns the response as it is.           *)
(***************************************************************************)
SubnetIds == {"sub1", "sub2"}

\* the value a caller supplies for an option; it differs from every default
CallerValue(k) ==
    CASE k = "name" -> "mine"
      [] k = "lb_method" -> "LEAST_CONNECTIONS"
      [] k = "protocol" -> "TCP"
      [] k = "protocol_port" -> 443
      [] k = "pool_id" -> "pool-x"
      [] k = "subnet_id" -> "sub-x"
      [] k = "vip_subnet_id" -> "sub-x"
      [] k = "type" -> "HTTP"
      [] k = "delay" -> 5
      [] k = "max_retries" -> 1
      [] k = "timeout" -> 2
      [] OTHER -> "u1"

\* the keyword options a caller can pass with keys among K
CallerDicts(K) == {[k \in S |-> CallerValue(k)] : S \in SUBSET K}

\* subnet_id is a named parameter, so it is never among pool_create_args
PoolArgs == CallerDicts({"name", "lb_method", "protocol"})
VipArgs == CallerDicts({"name", "protocol", "protocol_port", "pool_id",
                        "subnet_id"})
HealthMonitorArgs == CallerDicts({"type", "delay", "max_retries", "timeout"})
LbArgs == CallerDicts({"name", "vip_subnet_id"})

PoolObjects == {Dict1("pool", p) : p \in [id : Ids, subnet_id : SubnetIds]}
PoolAnswers(body) ==
    {Dict1("pool", [id |-> i, subnet_id |-> body["pool"]["subnet_id"]]) :
        i \in Ids}
HealthMonitorAnswers == {Dict1("health_monitor", [id |-> i]) : i \in Ids}
VipAnswers == {Dict1("vip", [id |-> i]) : i \in Ids}

\* args = {defaults}; args.update(pool_create_args); {"pool": args}
lb_pool_body(subnet_id, name, pool_create_args) ==
    Dict1("pool",
            Update([lb_method |-> self.LB_METHOD,
                    protocol |-> self.LB_PROTOCOL,
                    name |-> name,
                    subnet_id |-> subnet_id],
                   pool_create_args))

_create_lb_pool ==
    /\ pc = "idle"
    /\ \E subnet_id \in SubnetIds, pool_create_args \in PoolArgs,
          name \in RandomNames :
           LET body == lb_pool_body(subnet_id, name, pool_create_args) IN
           OneCall("_create_lb_pool",
                   [subnet_id |-> subnet_id,
                    pool_create_args |-> pool_create_args],
                   "create_pool", << body >>, EmptyDict,
                   PoolAnswers(body), "raw")

_delete_v1_pool ==
    /\ pc = "idle"
    /\ \E pool \in [id : Ids] :
           OneCall("_delete_v1_pool", [pool |-> pool],
                   "delete_pool", << pool["id"] >>, EmptyDict, {None}, "none")

\* the update the other way round: the defaults overwrite the caller's keys
v1_vip_body_defaults_win(pool, name, vip_create_args) ==
    Dict1("vip",
          Update(vip_create_args,
                 [protocol |-> self.LB_PROTOCOL,
                  protocol_port |-> self.LB_PROTOCOL_PORT,
                  name |-> name,
                  pool_id |-> pool["pool"]["id"],
                  subnet_id |-> pool["pool"]["subnet_id"]]))

\* args = {defaults}; args.update(vip_create_args); {"vip": args}
v1_vip_body(pool, name, vip_create_args) ==
    Dict1("vip",
            Update([protocol |-> self.LB_PROTOCOL,
                    protocol_port |-> self.LB_PROTOCOL_PORT,
                    name |-> name,
                    pool_id |-> pool["pool"]["id"],
                    subnet_id |-> pool["pool"]["subnet_id"]],
                   vip_create_args))

_create_v1_vip ==
    /\ pc = "idle"
    /\ \E pool \in PoolObjects, vip_create_args \in VipArgs,
          name \in RandomNames :
           OneCall("_create_v1_vip",
                   [pool |-> pool, vip_create_args |-> vip_create_args],
                   "create_vip", << v1_vip_body(pool, name, vip_create_args) >>,
                   EmptyDict, VipAnswers, "raw")

\* args = {defaults}; args.update(...); {"health_monitor": args}
v1_healthmonitor_body(healthmonitor_create_args) ==
    Dict1("health_monitor",
            Update([type |-> self.HM_TYPE,
                    delay |-> self.HM_DELAY,
                    max_retries |-> self.HM_MAX_RETRIES,
                    timeout |-> self.HM_TIMEOUT],
                   healthmonitor_create_args))

_create_v1_healthmonitor ==
    /\ pc = "idle"
    /\ \E healthmonitor_create_args \in HealthMonitorArgs :
           OneCall("_create_v1_healthmonitor",
                   [healthmonitor_create_args |-> healthmonitor_create_args],
                   "create_health_monitor",
                   << v1_healthmonitor_body(healthmonitor_create_args) >>,
                   EmptyDict, HealthMonitorAnswers, "raw")

(***************************************************************************)
(* The two loops: _create_subnets and _create_v1_pools.  Each creation is  *)
(* one step; an error raised by a creation leaves the loop and the method. *)
(***************************************************************************)
\* all sequences over S of length at most n
Seqs(S, n) == UNION {[1..k -> S] : k \in 0..n}

\* subnet options given to _create_subnets; None acts as the empty dict
\* ("subnet_create_args or {}")
LoopSubnetArgs == Dicts({"name", "ip_version"}, {"u1"})

\* the dict object that "subnet_create_args or {}" hands to _create_subnet
\* is the caller's own dict when it is not empty, and _create_subnet writes
\* into it; an empty or missing one is replaced by a fresh {} every time
subnet_create_args_after(network, subnet_create_args, start_cidr) ==
    IF DOMAIN subnet_create_args = {}
    THEN subnet_create_args
    ELSE create_subnet_kwargs(network, subnet_create_args, start_cidr)

_create_subnets ==
    /\ pc = "idle"
    /\ \E network \in Refs("network"), subnet_create_args \in LoopSubnetArgs,
          subnet_cidr_start \in CidrStarts, subnets_per_network \in 0..MaxCount :
           /\ pc = "idle"
           /\ inv' = Invocation("_create_subnets",
                                [network |-> network,
                                 subnet_create_args |-> subnet_create_args,
                                 subnet_cidr_start |-> subnet_cidr_start,
                                 subnets_per_network |-> subnets_per_network])
           /\ calls' = << >>
           /\ IF subnets_per_network = 0
              THEN /\ outcome' = Return(<< >>)
                   /\ pc' = "done"
                   /\ locals' = EmptyDict
              ELSE /\ outcome' = NoOutcome
                   /\ pc' = "_create_subnets"
                   /\ locals' = [subnet_create_args |-> subnet_create_args,
                                 result |-> << >>]
           /\ UNCHANGED self

\* a loop that swallows the error of a creation and goes on to the next
\* round (try: ... except Exception: continue) until it has made
\* 2 * subnets_per_network calls
_create_subnets_loop_retrying ==
    /\ pc = "_create_subnets"
    /\ LET network == inv.args.network
           start_cidr == inv.args.subnet_cidr_start
           kw == create_subnet_kwargs(network, locals.subnet_create_args,
                                      start_cidr)
       IN  \/ \E v \in Objects :
                LET result == Append(locals.result, Dict1("subnet", v)) IN
                /\ calls' = Append(calls, Call("create_subnet", << >>, kw,
                                               Ok(v)))
                /\ locals' = [locals EXCEPT !.result = result]
                /\ IF Len(result) = inv.args.subnets_per_network
                   THEN outcome' = Return(result) /\ pc' = "done"
                   ELSE outcome' = NoOutcome /\ pc' = "_create_subnets"
           \/ \E e \in ServiceErrors :
                /\ calls' = Append(calls, Call("create_subnet", << >>, kw,
                                               Err(e)))
                /\ IF Len(calls) + 1 >= 2 * inv.args.subnets_per_network
                   THEN outcome' = Raise(e) /\ pc' = "done"
                   ELSE outcome' = NoOutcome /\ pc' = "_create_subnets"
                /\ UNCHANGED locals
    /\ UNCHANGED <<self, inv>>

\* one round of: for i in range(subnets_per_network): _create_subnet(...)
_create_subnets_loop ==
    /\ pc = "_create_subnets"
    /\ LET network == inv.args.network
           start_cidr == inv.args.subnet_cidr_start
           kw == create_subnet_kwargs(network, locals.subnet_create_args,
                                      start_cidr)
       IN  \/ \E v \in Objects :
                LET result == Append(locals.result, Dict1("subnet", v)) IN
                /\ calls' = Append(calls, Call("create_subnet", << >>, kw,
                                               Ok(v)))
                /\ locals' = [subnet_create_args |->
                                 subnet_create_args_after(
                                     network, locals.subnet_create_args,
                                     start_cidr),
                              result |-> result]
                /\ IF Len(result) = inv.args.subnets_per_network
                   THEN outcome' = Return(result) /\ pc' = "done"
                   ELSE outcome' = NoOutcome /\ pc' = "_create_subnets"
           \/ \E e \in ServiceErrors :
                /\ calls' = Append(calls, Call("create_subnet", << >>, kw,
                                               Err(e)))
                /\ outcome' = Raise(e)
                /\ pc' = "done"
                /\ UNCHANGED locals
    /\ UNCHANGED <<self, inv>>

\* net.get("subnets", [])
net_subnets(net) ==
    IF "subnets" \in DOMAIN net THEN net["subnets"] ELSE << >>

\* for net in networks: subnets.extend(net.get("subnets", []))
RECURSIVE collect_subnets(_)
collect_subnets(networks) ==
    IF networks = << >> THEN << >>
    ELSE net_subnets(Head(networks)) \o collect_subnets(Tail(networks))

\* tenant networks, with or without a "subnets" entry
NetChoices ==
    {[id |-> "id1"]} \cup
    {[id |-> "id1", subnets |-> l] : l \in Seqs(SubnetIds, MaxCount)}
PoolNetworks ==
    {ns \in Seqs(NetChoices, 2) : Len(collect_subnets(ns)) <= MaxCount}
LoopPoolArgs == CallerDicts({"name", "protocol"})

_create_v1_pools ==
    /\ pc = "idle"
    /\ \E networks \in PoolNetworks, pool_create_args \in LoopPoolArgs :
           LET subnets == collect_subnets(networks) IN
           /\ pc = "idle"
           /\ inv' = Invocation("_create_v1_pools",
                                [networks |-> networks,
                                 pool_create_args |-> pool_create_args])
           /\ calls' = << >>
           /\ IF subnets = << >>
              THEN /\ outcome' = Return(<< >>)
                   /\ pc' = "done"
                   /\ locals' = EmptyDict
              ELSE /\ outcome' = NoOutcome
                   /\ pc' = "_create_v1_pools"
                   /\ locals' = [subnets |-> subnets, pools |-> << >>]
           /\ UNCHANGED self

\* one round of: for subnet_id in subnets: pools.append(_create_lb_pool(...))
_create_v1_pools_loop ==
    /\ pc = "_create_v1_pools"
    /\ \E name \in RandomNames :
        LET subnet_id == locals.subnets[Len(locals.pools) + 1]
            body == lb_pool_body(subnet_id, name, inv.args.pool_create_args)
        IN  \/ \E v \in PoolAnswers(body) :
                 LET pools == Append(locals.pools, v) IN
                 /\ calls' = Append(calls, Call("create_pool", << body >>,
                                                EmptyDict, Ok(v)))
                 /\ locals' = [locals EXCEPT !.pools = pools]
                 /\ IF Len(pools) = Len(locals.subnets)
                    THEN outcome' = Return(pools) /\ pc' = "done"
                    ELSE outcome' = NoOutcome /\ pc' = "_create_v1_pools"
            \/ \E e \in ServiceErrors :
                 /\ calls' = Append(calls, Call("create_pool", << body >>,
                                                EmptyDict, Err(e)))
                 /\ outcome' = Raise(e)
                 /\ pc' = "done"
                 /\ UNCHANGED locals
    /\ UNCHANGED <<self, inv>>

(***************************************************************************)
(* LBaaS v2: the load balancer and the wait for its provisioning.          *)
(***************************************************************************)
LbStatuses == {"ACTIVE", "PENDING_CREATE", "ERROR"}
LbObjects == [id : Ids, provisioning_status : LbStatuses]
LbAnswers == {Dict1("loadbalancer", l) : l \in LbObjects}

\* an error without status_code read as a 404
getattr_status_code_404(e, default) ==
    IF e.has_status THEN e.status_code ELSE 404

\* getattr(e, "status_code", default)
getattr_status_code(e, default) ==
    IF e.has_status THEN e.status_code ELSE default

\* the except branch of update_loadbalancer_resource
update_loadbalancer_resource_except(lb, e) ==
    IF getattr_status_code(e, 400) = 404
    THEN Raise([type |-> "GetResourceNotFound", resource |-> lb])
    ELSE Raise([type |-> "GetResourceFailure", resource |-> lb, err |-> e])

\* return new_lb["loadbalancer"]
update_loadbalancer_resource_result(new_lb) == new_lb["loadbalancer"]

update_loadbalancer_resource ==
    /\ pc = "idle"
    /\ \E lb \in LbObjects :
           /\ pc = "idle"
           /\ inv' = Invocation("update_loadbalancer_resource", [lb |-> lb])
           /\ \/ \E v \in LbAnswers :
                   /\ calls' = << Call("show_loadbalancer", << lb["id"] >>,
                                       EmptyDict, Ok(v)) >>
                   /\ outcome' = Return(update_loadbalancer_resource_result(v))
              \/ \E e \in ServiceErrors :
                   /\ calls' = << Call("show_loadbalancer", << lb["id"] >>,
                                       EmptyDict, Err(e)) >>
                   /\ outcome' = update_loadbalancer_resource_except(lb, e)
           /\ pc' = "done"
           /\ UNCHANGED <<self, locals>>

\* args = {defaults}; args.update(lb_create_args); {"loadbalancer": args}
lbaasv2_loadbalancer_body(subnet_id, name, lb_create_args) ==
    Dict1("loadbalancer",
            Update([name |-> name, vip_subnet_id |-> subnet_id],
                   lb_create_args))

\* a wait that also takes a load balancer still being created as ready
ready_statuses_pending == {"ACTIVE", "PENDING_CREATE"}

\* the arguments given to utils.wait_for_status
ready_statuses == {"ACTIVE"}
status_attr == "provisioning_status"

\* up to the call of utils.wait_for_status
_create_lbaasv2_loadbalancer ==
    /\ pc = "idle"
    /\ \E subnet_id \in SubnetIds, lb_create_args \in LbArgs,
          name \in RandomNames :
           LET body == lbaasv2_loadbalancer_body(subnet_id, name,
                                                 lb_create_args)
           IN  /\ pc = "idle"
               /\ inv' = Invocation("_create_lbaasv2_loadbalancer",
                                    [subnet_id |-> subnet_id,
                                     lb_create_args |-> lb_create_args])
               /\ \/ \E v \in LbAnswers :
                       /\ calls' = << Call("create_loadbalancer", << body >>,
                                           EmptyDict, Ok(v)) >>
                       /\ locals' = [lb |-> v["loadbalancer"], polls |-> 0]
                       /\ outcome' = NoOutcome
                       /\ pc' = "_create_lbaasv2_loadbalancer"
                  \/ \E e \in ServiceErrors :
                       /\ calls' = << Call("create_loadbalancer", << body >>,
                                           EmptyDict, Err(e)) >>
                       /\ locals' = EmptyDict
                       /\ outcome' = Raise(e)
                       /\ pc' = "done"
               /\ UNCHANGED self

\* One round of the wait: the resource is refreshed through
\* update_loadbalancer_resource; a ready status ends the wait with the
\* refreshed resource, an exception of the refresh ends it as raised, and
\* otherwise the wait goes on unless its timeout has elapsed.
wait_for_status ==
    /\ pc = "_create_lbaasv2_loadbalancer"
    /\ LET lb == locals.lb IN
       \/ \E v \in LbAnswers :
            LET new_lb == update_loadbalancer_resource_result(v) IN
            /\ calls' = Append(calls, Call("show_loadbalancer",
                                           << lb["id"] >>, EmptyDict, Ok(v)))
            /\ locals' = [lb |-> new_lb, polls |-> locals.polls + 1]
            /\ IF new_lb[status_attr] \in ready_statuses
               THEN outcome' = Return(new_lb) /\ pc' = "done"
               ELSE \/ /\ outcome' = Raise([type |-> "TimeoutException"])
                       /\ pc' = "done"
                    \/ /\ locals.polls + 1 < MaxPolls
                       /\ outcome' = NoOutcome
                       /\ pc' = "_create_lbaasv2_loadbalancer"
       \/ \E e \in ServiceErrors :
            /\ calls' = Append(calls, Call("show_loadbalancer",
                                           << lb["id"] >>, EmptyDict, Err(e)))
            /\ outcome' = update_loadbalancer_resource_except(lb, e)
            /\ pc' = "done"
            /\ UNCHANGED locals
    /\ UNCHANGED <<self, inv>>

(***************************************************************************)
(* LBaaS v1 updates and the BGP VPN update: raw client calls that take the *)
(* resource id and a request body.                                         *)
(***************************************************************************)
V1UpdateArgs == CallerDicts({"name", "lb_method"})
HealthMonitorUpdateArgs == CallerDicts({"name", "delay"})
BgpvpnArgs == CallerDicts({"name", "route_targets"})
BgpvpnAnswers == {Dict1("bgpvpn", [id |-> i]) : i \in Ids}

_update_v1_pool ==
    /\ pc = "idle"
    /\ \E pool \in Refs("pool"), pool_update_args \in V1UpdateArgs,
          name \in RandomNames :
           OneCall("_update_v1_pool",
                   [pool |-> pool, pool_update_args |-> pool_update_args],
                   "update_pool",
                   << pool["pool"]["id"],
                      Dict1("pool", update_kwargs(pool_update_args, name)) >>,
                   EmptyDict, PoolObjects, "raw")

_update_v1_vip ==
    /\ pc = "idle"
    /\ \E vip \in Refs("vip"), vip_update_args \in V1UpdateArgs,
          name \in RandomNames :
           OneCall("_update_v1_vip",
                   [vip |-> vip, vip_update_args |-> vip_update_args],
                   "update_vip",
                   << vip["vip"]["id"],
                      Dict1("vip", update_kwargs(vip_update_args, name)) >>,
                   EmptyDict, VipAnswers, "raw")

_update_v1_healthmonitor ==
    /\ pc = "idle"
    /\ \E healthmonitor \in Refs("health_monitor"),
          healthmonitor_update_args \in HealthMonitorUpdateArgs :
           OneCall("_update_v1_healthmonitor",
                   [healthmonitor |-> healthmonitor,
                    healthmonitor_update_args |-> healthmonitor_update_args],
                   "update_health_monitor",
                   << healthmonitor["health_monitor"]["id"],
                      Dict1("health_monitor", healthmonitor_update_args) >>,
                   EmptyDict, HealthMonitorAnswers, "raw")

\* the name replaced only when update_name is set
update_bgpvpn_kwargs_flag_only(update_name, kwargs, name) ==
    IF update_name THEN SetItem(kwargs, "name", name) ELSE kwargs

\* if update_name or "name" in kwargs: kwargs["name"] = <random name>
update_bgpvpn_kwargs(update_name, kwargs, name) ==
    IF update_name \/ "name" \in DOMAIN kwargs
    THEN SetItem(kwargs, "name", name)
    ELSE kwargs

_update_bgpvpn ==
    /\ pc = "idle"
    /\ \E bgpvpn \in Refs("bgpvpn"), update_name \in BOOLEAN,
          kwargs \in BgpvpnArgs, name \in RandomNames :
           OneCall("_update_bgpvpn",
                   [bgpvpn |-> bgpvpn, update_name |-> update_name,
                    kwargs |-> kwargs],
                   "update_bgpvpn",
                   << bgpvpn["bgpvpn"]["id"],
                      Dict1("bgpvpn",
                            update_bgpvpn_kwargs(update_name, kwargs, name)) >>,
                   EmptyDict, BgpvpnAnswers, "raw")

(***************************************************************************)
(* The network topologies: one create_network_topology call each.          *)
(***************************************************************************)
Omitted == "omitted"
\* a keyword parameter: the caller's value, or the default when left out
default_arg(given, default) == IF given = Omitted THEN default ELSE given

TopoNetworkArgs == Dicts({"name"}, {"u1"})
TopoSubnetArgs == Dicts({"start_cidr", "ip_version"}, {"u1"})
TopoRouterArgs == Dicts({"admin_state_up"}, {"u1"})
TopoCidrs == {Omitted, "10.2.0.0/24"}
TopoRouters == { << >>, << [id |-> "id2"], [id |-> "id1"] >> }
TopoAnswers ==
    { [network |-> n, subnets |-> ss, routers |-> rs] :
        n \in [id : Ids], ss \in Seqs([id : Ids], MaxCount),
        rs \in TopoRouters }

\* [{"<key>": x} for x in items]
wrap_each(key, items) == [i \in DOMAIN items |-> Dict1(key, items[i])]

\* start_cidr written only when the subnet options do not hold one
network_and_subnets_kwargs_setdefault(net_args, subnet_args, count, cidr) ==
    [network_create_args |-> net_args,
     subnet_create_args |->
         IF "start_cidr" \in DOMAIN subnet_args
         THEN subnet_args
         ELSE SetItem(subnet_args, "start_cidr", cidr),
     subnets_count |-> count]

\* the keyword arguments of create_network_topology
network_and_subnets_kwargs(net_args, subnet_args, count, cidr) ==
    [network_create_args |-> net_args,
     subnet_create_args |-> SetItem(subnet_args, "start_cidr", cidr),
     subnets_count |-> count]

\* return {"network": net_topo["network"]}, subnets
network_and_subnets_result(net_topo) ==
    << Dict1("network", net_topo["network"]),
       wrap_each("subnet", net_topo["subnets"]) >>

_create_network_and_subnets ==
    /\ pc = "idle"
    /\ \E network_create_args \in TopoNetworkArgs,
          subnet_create_args \in TopoSubnetArgs,
          subnets_per_network \in 0..MaxCount,
          subnet_cidr_start \in TopoCidrs :
           LET kw == network_and_subnets_kwargs(
                         network_create_args, subnet_create_args,
                         subnets_per_network,
                         default_arg(subnet_cidr_start, "1.0.0.0/24"))
           IN  /\ pc = "idle"
               /\ inv' = Invocation("_create_network_and_subnets",
                             [network_create_args |-> network_create_args,
                              subnet_create_args |-> subnet_create_args,
                              subnets_per_network |-> subnets_per_network,
                              subnet_cidr_start |-> subnet_cidr_start])
               /\ \/ \E v \in TopoAnswers :
                       /\ calls' = << Call("create_network_topology", << >>,
                                           kw, Ok(v)) >>
                       /\ outcome' = Return(network_and_subnets_result(v))
                  \/ \E e \in ServiceErrors :
                       /\ calls' = << Call("create_network_topology", << >>,
                                           kw, Err(e)) >>
                       /\ outcome' = Raise(e)
               /\ pc' = "done"
               /\ UNCHANGED <<self, locals>>

\* the keyword arguments of create_network_topology
network_structure_kwargs(net_args, subnet_args, cidr, count, router_args) ==
    [network_create_args |-> net_args,
     router_create_args |-> router_args,
     router_per_subnet |-> TRUE,
     subnet_create_args |-> SetItem(subnet_args, "start_cidr", cidr),
     subnets_count |-> count]

\* return ({"network": ...}, [{"subnet": s} ...], [{"router": r} ...])
network_structure_result(net_topo) ==
    << Dict1("network", net_topo["network"]),
       wrap_each("subnet", net_topo["subnets"]),
       wrap_each("router", net_topo["routers"]) >>

_create_network_structure ==
    /\ pc = "idle"
    /\ \E network_create_args \in TopoNetworkArgs,
          subnet_create_args \in TopoSubnetArgs,
          subnet_cidr_start \in TopoCidrs,
          subnets_per_network \in 0..MaxCount,
          router_create_args \in TopoRouterArgs :
           LET kw == network_structure_kwargs(
                         network_create_args, subnet_create_args,
                         default_arg(subnet_cidr_start, None),
                         subnets_per_network, router_create_args)
           IN  /\ pc = "idle"
               /\ inv' = Invocation("_create_network_structure",
                             [network_create_args |-> network_create_args,
                              subnet_create_args |-> subnet_create_args,
                              subnet_cidr_start |-> subnet_cidr_start,
                              subnets_per_network |-> subnets_per_network,
                              router_create_args |-> router_create_args])
               /\ \/ \E v \in TopoAnswers :
                       /\ calls' = << Call("create_network_topology", << >>,
                                           kw, Ok(v)) >>
                       /\ outcome' = Return(network_structure_result(v))
                  \/ \E e \in ServiceErrors :
                       /\ calls' = << Call("create_network_topology", << >>,
                                           kw, Err(e)) >>
                       /\ outcome' = Raise(e)
               /\ pc' = "done"
               /\ UNCHANGED <<self, locals>>

(***************************************************************************)
(* The calling scenario takes the finished invocation's result or          *)
(* exception; the helper can then be called again.                         *)
(***************************************************************************)
Collect ==
    /\ pc = "done"
    /\ pc' = "idle"
    /\ inv' = Invocation("none", EmptyDict)
    /\ locals' = EmptyDict
    /\ calls' = << >>
    /\ outcome' = NoOutcome
    /\ UNCHANGED self

Init ==
    /\ self \in Scenarios
    /\ pc = "idle"
    /\ inv = Invocation("none", EmptyDict)
    /\ locals = EmptyDict
    /\ calls = << >>
    /\ outcome = NoOutcome

Next ==
    \/ _get_network_id
    \/ _create_network
    \/ _update_network
    \/ _show_network
    \/ _delete_network
    \/ _create_subnet
    \/ _show_subnet
    \/ _update_subnet
    \/ _delete_subnet
    \/ _create_router
    \/ _show_router
    \/ _update_router
    \/ _create_port
    \/ _show_port
    \/ _update_port
    \/ _create_floatingip
    \/ _create_security_group
    \/ _show_security_group
    \/ _update_security_group
    \/ _create_security_group_rule
    \/ _show_security_group_rule
    \/ _create_lb_pool
    \/ _delete_v1_pool
    \/ _create_v1_vip
    \/ _create_v1_healthmonitor
    \/ _create_subnets
    \/ _create_subnets_loop
    \/ _create_v1_pools
    \/ _create_v1_pools_loop
    \/ update_loadbalancer_resource
    \/ _create_lbaasv2_loadbalancer
    \/ wait_for_status
    \/ NeutronBaseScenario_get_or_create_network
    \/ NeutronScenario_get_or_create_network
    \/ _update_v1_pool
    \/ _update_v1_vip
    \/ _update_v1_healthmonitor
    \/ _update_bgpvpn
    \/ _create_network_and_subnets
    \/ _create_network_structure
    \/ Collect

Spec == Init /\ [][Next]_vars

(***************************************************************************)
(* Properties.                                                             *)
(***************************************************************************)
Finished(method) == pc = "done" /\ inv.method = method
Returned(method) == Finished(method) /\ outcome.kind = "return"
Last(s) == s[Len(s)]
IsLookupFailure(e) ==
    \/ e.type = "GetResourceFailure"
    \/ e.has_status /\ e.status_code = 404

\* the create, show and update wrappers with the key each returns under
ReshapingWrappers ==
    { <<"_create_network", "network">>, <<"_show_network", "network">>,
      <<"_update_network", "network">>, <<"_create_subnet", "subnet">>,
      <<"_show_subnet", "subnet">>, <<"_update_subnet", "subnet">>,
      <<"_create_router", "router">>, <<"_show_router", "router">>,
      <<"_update_router", "router">>, <<"_create_port", "port">>,
      <<"_show_port", "port">>, <<"_update_port", "port">>,
      <<"_create_floatingip", "floatingip">>,
      <<"_create_security_group", "security_group">>,
      <<"_show_security_group", "security_group">>,
      <<"_update_security_group", "security_group">>,
      <<"_create_security_group_rule", "security_group_rule">>,
      <<"_show_security_group_rule", "security_group_rule">> }

\* C1: whenever one of the create, show and update wrappers returns, it has
\* made exactly one service call, and the value it returns is a mapping
\* whose only key is the resource-type name and whose value is the object
\* that call returned.
C1_SingleKeyMapping ==
    \A w \in ReshapingWrappers :
        Returned(w[1]) =>
            /\ Len(calls) = 1
            /\ calls[1].res.kind = "ok"
            /\ DOMAIN outcome.value = {w[2]}
            /\ outcome.value[w[2]] = calls[1].res.value

C1_Witness ==
    /\ Returned("_show_security_group_rule")
    /\ Len(calls) = 1
    /\ outcome.value["security_group_rule"] = [id |-> "id2",
                                               name |-> "s_rally_1"]

\* C2: _create_network makes a single create_network call whose keyword
\* arguments are the keys of network_create_args other than "name", each
\* with the caller's value, and no name.
C2_NetworkNameOmitted ==
    Finished("_create_network") =>
        LET a == inv.args.network_create_args
            kw == calls[1].kw
        IN  /\ Len(calls) = 1
            /\ calls[1].op = "create_network"
            /\ calls[1].pos = << >>
            /\ "name" \notin DOMAIN kw
            /\ DOMAIN kw = DOMAIN a \ {"name"}
            /\ \A k \in DOMAIN kw : kw[k] = a[k]

C2_Witness ==
    /\ Finished("_create_network")
    /\ DOMAIN inv.args.network_create_args = {"name", "admin_state_up"}
    /\ DOMAIN calls[1].kw = {"admin_state_up"}

\* C3: every create_subnet call of _create_subnet (called directly or from
\* _create_subnets) has network_id equal to the id of the given network,
\* start_cidr equal to the start_cidr parameter and no name; the caller's
\* own network_id, start_cidr and name do not reach the service, and every
\* other key of subnet_create_args is forwarded unchanged.
C3_SubnetCall ==
    (pc # "idle" /\ inv.method \in {"_create_subnet", "_create_subnets"}) =>
        LET a == inv.args.subnet_create_args
            cidr == IF inv.method = "_create_subnet"
                    THEN inv.args.start_cidr
                    ELSE inv.args.subnet_cidr_start
        IN  \A i \in DOMAIN calls :
                LET kw == calls[i].kw IN
                /\ calls[i].op = "create_subnet"
                /\ calls[i].pos = << >>
                /\ "name" \notin DOMAIN kw
                /\ DOMAIN kw = (DOMAIN a \ {"name"})
                                   \cup {"network_id", "start_cidr"}
                /\ kw["network_id"] = inv.args.network["network"]["id"]
                /\ kw["start_cidr"] = cidr
                /\ \A k \in DOMAIN a \ {"name", "network_id", "start_cidr"} :
                       kw[k] = a[k]

C3_Witness ==
    /\ Finished("_create_subnet")
    /\ DOMAIN inv.args.subnet_create_args =
           {"name", "network_id", "start_cidr", "ip_version"}
    /\ inv.args.start_cidr = "10.2.0.0/24"
    /\ Len(calls) = 1
    /\ calls[1].kw["start_cidr"] = "10.2.0.0/24"

\* C4: _get_network_id makes one find_network call with the given name or
\* id and nothing else; when the call returns, the method returns the "id"
\* of the network found; when the call raises GetResourceFailure, the
\* method raises NotFoundException naming the network.
C4_GetNetworkId ==
    Finished("_get_network_id") =>
        LET r == calls[1].res IN
        /\ Len(calls) = 1
        /\ calls[1].op = "find_network"
        /\ calls[1].pos = << inv.args.network >>
        /\ calls[1].kw = EmptyDict
        /\ r.kind = "ok" => outcome = Return(r.value["id"])
        /\ (r.kind = "error" /\ r.exc.type = "GetResourceFailure") =>
               /\ outcome.kind = "raise"
               /\ outcome.exc.type = "NotFoundException"
               /\ outcome.exc.message[2] = inv.args.network

C4_Witness ==
    /\ Finished("_get_network_id")
    /\ inv.args.kwargs # EmptyDict
    /\ calls[1].res.kind = "error"
    /\ calls[1].res.exc.type = "GetResourceFailure"
    /\ outcome.kind = "raise"

\* C5: update_loadbalancer_resource raises GetResourceNotFound exactly when
\* show_loadbalancer raised an error with status_code 404; every other
\* error, one without status_code included, gives GetResourceFailure
\* carrying that error; when show_loadbalancer returns, the value under
\* "loadbalancer" is returned.
C5_UpdateLoadbalancerResource ==
    Finished("update_loadbalancer_resource") =>
        LET r == calls[1].res
            is404 == /\ r.kind = "error"
                     /\ r.exc.has_status
                     /\ r.exc.status_code = 404
        IN  /\ Len(calls) = 1
            /\ calls[1].op = "show_loadbalancer"
            /\ calls[1].pos = << inv.args.lb["id"] >>
            /\ (outcome.kind = "raise"
                   /\ outcome.exc.type = "GetResourceNotFound") <=> is404
            /\ (r.kind = "error" /\ ~is404) =>
                   outcome = Raise([type |-> "GetResourceFailure",
                                    resource |-> inv.args.lb,
                                    err |-> r.exc])
            /\ r.kind = "ok" => outcome = Return(r.value["loadbalancer"])

C5_Witness ==
    /\ Finished("update_loadbalancer_resource")
    /\ calls[1].res.kind = "error"
    /\ ~calls[1].res.exc.has_status
    /\ outcome.kind = "raise"
    /\ outcome.exc.type = "GetResourceFailure"

\* C6 as stated: in every method, an error raised by the wrapped call that
\* is not a lookup failure reaches the caller as the same error.
C6_EveryErrorPropagatesUnchanged ==
    (pc = "done" /\ calls # << >> /\ Last(calls).res.kind = "error"
        /\ ~IsLookupFailure(Last(calls).res.exc)) =>
        outcome = Raise(Last(calls).res.exc)

\* C6 as amended: an error that is not a lookup failure reaches the caller
\* as the same error in every method except update_loadbalancer_resource
\* and the status poll of _create_lbaasv2_loadbalancer that runs through
\* it; there, every error of show_loadbalancer other than a 404 is replaced
\* by GetResourceFailure carrying the original error.
C6_ErrorsPropagateExceptPoll ==
    (pc = "done" /\ calls # << >> /\ Last(calls).res.kind = "error"
        /\ ~IsLookupFailure(Last(calls).res.exc)) =>
        LET c == Last(calls) IN
        IF c.op = "show_loadbalancer"
        THEN /\ outcome.kind = "raise"
             /\ outcome.exc.type = "GetResourceFailure"
             /\ outcome.exc.err = c.res.exc
        ELSE outcome = Raise(c.res.exc)

C6_Witness ==
    /\ Finished("_get_network_id")
    /\ calls[1].res.kind = "error"
    /\ calls[1].res.exc.type = "InternalServerError"
    /\ outcome = Raise(calls[1].res.exc)

\* C7: in _create_lbaasv2_loadbalancer the first call is create_loadbalancer
\* and every later call is a show_loadbalancer poll for the load balancer
\* last seen; no poll follows one that saw ACTIVE; the method returns only
\* the load balancer of a last poll that saw ACTIVE, and an invocation that
\* ended without seeing ACTIVE ended by raising.
C7_LoadbalancerWait ==
    (pc # "idle" /\ inv.method = "_create_lbaasv2_loadbalancer") =>
        LET n == Len(calls)
            SawActive(i) ==
                /\ calls[i].res.kind = "ok"
                /\ calls[i].res.value["loadbalancer"]["provisioning_status"]
                       = "ACTIVE"
        IN  /\ n >= 1
            /\ calls[1].op = "create_loadbalancer"
            /\ \A i \in 2..n :
                   /\ calls[i].op = "show_loadbalancer"
                   /\ calls[i - 1].res.kind = "ok"
                   /\ calls[i].pos =
                          << calls[i - 1].res.value["loadbalancer"]["id"] >>
            /\ \A i \in 2..(n - 1) : ~SawActive(i)
            /\ (pc = "done" /\ outcome.kind = "return") =>
                   /\ n >= 2
                   /\ SawActive(n)
                   /\ outcome.value = calls[n].res.value["loadbalancer"]
            /\ (pc = "done" /\ ~(n >= 2 /\ SawActive(n))) =>
                   outcome.kind = "raise"
            /\ (pc # "done") => (n = 1 \/ ~SawActive(n))

C7_Witness ==
    /\ Returned("_create_lbaasv2_loadbalancer")
    /\ Len(calls) = 3
    /\ calls[1].res.value["loadbalancer"]["provisioning_status"]
           = "PENDING_CREATE"
    /\ calls[2].res.value["loadbalancer"]["provisioning_status"]
           = "PENDING_CREATE"
    /\ outcome.value["provisioning_status"] = "ACTIVE"

\* C8: a service call that raised is the last call of its invocation, which
\* ends at once by raising; in _create_subnets and _create_v1_pools every
\* call is a creation, so a failure of the k-th creation ends the
\* invocation after k creation calls, the k-1 before it having succeeded
\* and no delete having been issued.
C8_NoRetry ==
    (pc # "idle") =>
        /\ \A i \in 1..(Len(calls) - 1) : calls[i].res.kind = "ok"
        /\ (calls # << >> /\ Last(calls).res.kind = "error") =>
               (pc = "done" /\ outcome.kind = "raise")
        /\ inv.method = "_create_subnets" =>
               /\ Len(calls) <= inv.args.subnets_per_network
               /\ \A i \in DOMAIN calls : calls[i].op = "create_subnet"
        /\ inv.method = "_create_v1_pools" =>
               /\ Len(calls) <= Len(collect_subnets(inv.args.networks))
               /\ \A i \in DOMAIN calls : calls[i].op = "create_pool"

C8_Witness ==
    /\ Finished("_create_v1_pools")
    /\ Len(collect_subnets(inv.args.networks)) = 2
    /\ Len(calls) = 1
    /\ calls[1].res.kind = "error"
    /\ outcome.kind = "raise"

OrDefault(a, k, d) == IF k \in DOMAIN a THEN a[k] ELSE d
NameOrGenerated(a, b) ==
    IF "name" \in DOMAIN a THEN b["name"] = a["name"]
    ELSE b["name"] \in RandomNames

C10_Defaults ==
    (pc # "idle") =>
        \A i \in DOMAIN calls :
            LET c == calls[i] IN
            /\ c.op = "create_pool" =>
                 LET b == c.pos[1]["pool"]
                     a == inv.args.pool_create_args
                     subnet_id ==
                         IF inv.method = "_create_lb_pool"
                         THEN inv.args.subnet_id
                         ELSE collect_subnets(inv.args.networks)[i]
                 IN  /\ DOMAIN c.pos[1] = {"pool"}
                     /\ DOMAIN b = DOMAIN a \cup {"lb_method", "protocol",
                                                  "name", "subnet_id"}
                     /\ b["lb_method"] = OrDefault(a, "lb_method",
                                                   "ROUND_ROBIN")
                     /\ b["protocol"] = OrDefault(a, "protocol", "HTTP")
                     /\ NameOrGenerated(a, b)
                     /\ b["subnet_id"] = subnet_id
            /\ c.op = "create_vip" =>
                 LET b == c.pos[1]["vip"]
                     a == inv.args.vip_create_args
                     pool == inv.args.pool["pool"]
                 IN  /\ DOMAIN c.pos[1] = {"vip"}
                     /\ DOMAIN b = DOMAIN a \cup {"protocol",
                                                  "protocol_port", "name",
                                                  "pool_id", "subnet_id"}
                     /\ b["protocol"] = OrDefault(a, "protocol", "HTTP")
                     /\ b["protocol_port"] = OrDefault(a, "protocol_port",
                                                       80)
                     /\ NameOrGenerated(a, b)
                     /\ b["pool_id"] = OrDefault(a, "pool_id", pool["id"])
                     /\ b["subnet_id"] = OrDefault(a, "subnet_id",
                                                   pool["subnet_id"])
            /\ c.op = "create_health_monitor" =>
                 LET b == c.pos[1]["health_monitor"]
                     a == inv.args.healthmonitor_create_args
                 IN  /\ DOMAIN c.pos[1] = {"health_monitor"}
                     /\ DOMAIN b = DOMAIN a \cup {"type", "delay",
                                                  "max_retries", "timeout"}
                     /\ b["type"] = OrDefault(a, "type", "PING")
                     /\ b["delay"] = OrDefault(a, "delay", 20)
                     /\ b["max_retries"] = OrDefault(a, "max_retries", 3)
                     /\ b["timeout"] = OrDefault(a, "timeout", 10)
            /\ c.op = "create_loadbalancer" =>
                 LET b == c.pos[1]["loadbalancer"]
                     a == inv.args.lb_create_args
                 IN  /\ DOMAIN c.pos[1] = {"loadbalancer"}
                     /\ DOMAIN b = DOMAIN a \cup {"name", "vip_subnet_id"}
                     /\ NameOrGenerated(a, b)
                     /\ b["vip_subnet_id"] =
                            OrDefault(a, "vip_subnet_id", inv.args.subnet_id)

C10_Witness ==
    /\ Finished("_create_v1_vip")
    /\ DOMAIN inv.args.vip_create_args = {"name", "subnet_id"}
    /\ Len(calls) = 1
    /\ calls[1].pos[1]["vip"]["name"] = "mine"
    /\ calls[1].pos[1]["vip"]["subnet_id"] = "sub-x"
    /\ calls[1].pos[1]["vip"]["protocol_port"] = 80

\* C11: NeutronBaseScenario._get_or_create_network, with a "networks" entry
\* in the tenant context, makes no service call and returns the network at
\* position (iteration mod number of networks) of that list, a member of
\* it; without the entry it makes exactly one create_network call with the
\* arguments it was given and returns what the call returned.
C11_BaseGetOrCreateNetwork ==
    Finished("NeutronBaseScenario._get_or_create_network") =>
        LET tenant == self.context["tenant"] IN
        IF "networks" \in DOMAIN tenant
        THEN LET networks == tenant["networks"]
                 n == Len(networks)
             IN  /\ calls = << >>
                 /\ outcome.kind = "return"
                 /\ \E i \in 0..(n - 1) :
                        /\ i = self.context["iteration"] % n
                        /\ outcome.value = networks[i + 1]
        ELSE /\ Len(calls) = 1
             /\ calls[1].op = "create_network"
             /\ calls[1].pos = << >>
             /\ calls[1].kw = inv.args.network_create_args
             /\ outcome.kind = "return" =>
                    (calls[1].res.kind = "ok"
                        /\ outcome.value = calls[1].res.value)

C11_Witness ==
    /\ Finished("NeutronBaseScenario._get_or_create_network")
    /\ "networks" \in DOMAIN self.context["tenant"]
    /\ self.context["iteration"] = Len(self.context["tenant"]["networks"])
    /\ outcome = Return(self.context["tenant"]["networks"][1])

\* C12: NeutronScenario._get_or_create_network, when it returns, returns a
\* dict with the single key "network"; with a "networks" entry in the
\* tenant context the value is a member of that list and no service call
\* was made; without it exactly one create_network call was made, with
\* network_create_args minus any name, and the value is its result.
C12_GetOrCreateNetwork ==
    Finished("NeutronScenario._get_or_create_network") =>
        LET tenant == self.context["tenant"]
            a == inv.args.network_create_args
        IN  IF "networks" \in DOMAIN tenant
            THEN /\ calls = << >>
                 /\ outcome.kind = "return"
                 /\ DOMAIN outcome.value = {"network"}
                 /\ \E i \in DOMAIN tenant["networks"] :
                        outcome.value["network"] = tenant["networks"][i]
            ELSE /\ Len(calls) = 1
                 /\ calls[1].op = "create_network"
                 /\ calls[1].pos = << >>
                 /\ DOMAIN calls[1].kw = DOMAIN a \ {"name"}
                 /\ \A k \in DOMAIN calls[1].kw : calls[1].kw[k] = a[k]
                 /\ outcome.kind = "return" =>
                        /\ calls[1].res.kind = "ok"
                        /\ DOMAIN outcome.value = {"network"}
                        /\ outcome.value["network"] = calls[1].res.value

C12_Witness ==
    /\ Returned("NeutronScenario._get_or_create_network")
    /\ "networks" \in DOMAIN self.context["tenant"]
    /\ outcome.value["network"] = self.context["tenant"]["networks"][2]
    /\ calls = << >>

\* C13: the body _update_bgpvpn sends holds a name exactly when update_name
\* is true or the caller passed a name; a name that is sent is a generated
\* random name, never the caller's; with update_name false and no name
\* passed the body is exactly the caller's keyword options.
C13_UpdateBgpvpnName ==
    Finished("_update_bgpvpn") =>
        LET a == inv.args.kwargs
            flag == inv.args.update_name
            body == calls[1].pos[2]
            b == body["bgpvpn"]
        IN  /\ Len(calls) = 1
            /\ calls[1].op = "update_bgpvpn"
            /\ calls[1].pos[1] = inv.args.bgpvpn["bgpvpn"]["id"]
            /\ DOMAIN body = {"bgpvpn"}
            /\ ("name" \in DOMAIN b) <=> (flag \/ "name" \in DOMAIN a)
            /\ "name" \in DOMAIN b => b["name"] \in RandomNames
            /\ (~flag /\ "name" \notin DOMAIN a) => b = a

C13_Witness ==
    /\ Finished("_update_bgpvpn")
    /\ ~inv.args.update_name
    /\ DOMAIN inv.args.kwargs = {"name", "route_targets"}
    /\ inv.args.kwargs["name"] = "mine"
    /\ calls[1].pos[2]["bgpvpn"]["name"] = "s_rally_2"

\* C14: _create_network_and_subnets and _create_network_structure each make
\* exactly one create_network_topology call, with subnets_count equal to
\* subnets_per_network and the start_cidr of the subnet arguments equal to
\* subnet_cidr_start ("1.0.0.0/24" when the former is called without one),
\* the latter with router_per_subnet true; what they return is the
\* topology's network under "network" and its subnets (and routers), in the
\* same number and order, each under "subnet" (resp. "router").
C14_Topology ==
    (pc = "done" /\ inv.method \in {"_create_network_and_subnets",
                                    "_create_network_structure"}) =>
        LET structure == inv.method = "_create_network_structure"
            given == inv.args.subnet_cidr_start
            cidr == IF given # "omitted" THEN given
                    ELSE IF structure THEN "None" ELSE "1.0.0.0/24"
            kw == calls[1].kw
            topo == calls[1].res.value
            ret == outcome.value
        IN  /\ Len(calls) = 1
            /\ calls[1].op = "create_network_topology"
            /\ calls[1].pos = << >>
            /\ kw["subnets_count"] = inv.args.subnets_per_network
            /\ kw["subnet_create_args"]["start_cidr"] = cidr
            /\ structure => kw["router_per_subnet"] = TRUE
            /\ outcome.kind = "return" =>
                 /\ calls[1].res.kind = "ok"
                 /\ Len(ret) = IF structure THEN 3 ELSE 2
                 /\ ret[1] = [network |-> topo["network"]]
                 /\ Len(ret[2]) = Len(topo["subnets"])
                 /\ \A i \in DOMAIN ret[2] :
                        ret[2][i] = [subnet |-> topo["subnets"][i]]
                 /\ structure =>
                        /\ Len(ret[3]) = Len(topo["routers"])
                        /\ \A i \in DOMAIN ret[3] :
                               ret[3][i] = [router |-> topo["routers"][i]]

C14_Witness ==
    /\ Returned("_create_network_structure")
    /\ "start_cidr" \in DOMAIN inv.args.subnet_create_args
    /\ inv.args.subnet_cidr_start = "10.2.0.0/24"
    /\ outcome.value[2] = << [subnet |-> [id |-> "id2"]],
                             [subnet |-> [id |-> "id1"]] >>
    /\ outcome.value[3] = << [router |-> [id |-> "id2"]],
                             [router |-> [id |-> "id1"]] >>

\* C15: the create_router call of _create_router has project_id equal to
\* the caller's tenant_id, and no tenant_id, whenever the caller gave
\* tenant_id without project_id; has both unchanged when the caller gave
\* both; never has a name; and has discover_external_gw equal to the
\* external_gw parameter.
C15_CreateRouterArgs ==
    Finished("_create_router") =>
        LET a == inv.args.router_create_args
            kw == calls[1].kw
        IN  /\ Len(calls) = 1
            /\ calls[1].op = "create_router"
            /\ ("tenant_id" \in DOMAIN a /\ "project_id" \notin DOMAIN a) =>
                   /\ "project_id" \in DOMAIN kw
                   /\ kw["project_id"] = a["tenant_id"]
                   /\ "tenant_id" \notin DOMAIN kw
            /\ ("tenant_id" \in DOMAIN a /\ "project_id" \in DOMAIN a) =>
                   /\ {"tenant_id", "project_id"} \subseteq DOMAIN kw
                   /\ kw["tenant_id"] = a["tenant_id"]
                   /\ kw["project_id"] = a["project_id"]
            /\ "name" \notin DOMAIN kw
            /\ kw["discover_external_gw"] = inv.args.external_gw

C15_Witness ==
    /\ Finished("_create_router")
    /\ DOMAIN inv.args.router_create_args = {"name", "tenant_id"}
    /\ inv.args.external_gw
    /\ calls[1].kw["project_id"] = "u2"

\* the update wrappers that inject a name: method, resource-type key,
\* name of the options parameter, and whether the options travel as
\* keyword arguments of the service call or as a request body
NamingUpdates ==
    { <<"_update_network", "network", "network_update_args", "kw">>,
      <<"_update_subnet", "subnet", "subnet_update_args", "kw">>,
      <<"_update_router", "router", "router_update_args", "kw">>,
      <<"_update_port", "port", "port_update_args", "kw">>,
      <<"_update_security_group", "security_group",
        "security_group_update_args", "kw">>,
      <<"_update_v1_pool", "pool", "pool_update_args", "body">>,
      <<"_update_v1_vip", "vip", "vip_update_args", "body">> }

\* C16: each of the seven naming update wrappers makes one call addressed
\* to the id nested under the resource-type key and sends a generated
\* random name, whatever name the caller put in the update arguments, with
\* the caller's other options unchanged; _update_v1_healthmonitor sends
\* exactly the caller's options.
C16_UpdateNames ==
    /\ \A w \in NamingUpdates :
           Finished(w[1]) =>
               LET a == inv.args[w[3]]
                   sent == IF w[4] = "kw" THEN calls[1].kw
                           ELSE calls[1].pos[2][w[2]]
               IN  /\ Len(calls) = 1
                   /\ calls[1].pos[1] = inv.args[w[2]][w[2]]["id"]
                   /\ DOMAIN sent = DOMAIN a \cup {"name"}
                   /\ sent["name"] \in RandomNames
                   /\ \A k \in DOMAIN a \ {"name"} : sent[k] = a[k]
    /\ Finished("_update_v1_healthmonitor") =>
           /\ Len(calls) = 1
           /\ calls[1].pos =
                  << inv.args.healthmonitor["health_monitor"]["id"],
                     [health_monitor |->
                          inv.args.healthmonitor_update_args] >>

C16_Witness ==
    /\ Finished("_update_v1_pool")
    /\ DOMAIN inv.args.pool_update_args = {"name", "lb_method"}
    /\ inv.args.pool_update_args["name"] = "mine"
    /\ calls[1].pos[2]["pool"]["name"] = "s_rally_1"

====
